---- MODULE Spec2Model ----
(***************************************************************************)
(* Model of backend/ai_generator.py: one invocation of                     *)
(* AIGenerator.generate_response and the recursion of _process_tool_chain. *)
(* The Anthropic client (client.messages.create) and the tool manager     *)
(* (tool_manager.execute_tool) are external: what they return or raise is  *)
(* a nondeterministic input.  The invocation is split at these external    *)
(* calls; everything the code does between two of them is one action.      *)
(*                                                                         *)
(* The query orchestrator (RAGSystem.query), the tool registry             *)
(* (ToolManager), the search tool and the session store are not among the  *)
(* source files; only their tests are.  They are modelled from the         *)
(* specification and those tests, under QuerySpec (one thread of control), *)
(* ConcurrentSpec (two threads on one orchestrator) and RegistrySpec (the  *)
(* tool registry used on its own).                                         *)
(*                                                                         *)
(* LiveSpec is Spec with every external call coming back; InvocationsSpec  *)
(* runs two invocations on one AIGenerator, with lists and dicts as        *)
(* objects that have an identity.                                          *)
(***************************************************************************)
EXTENDS Integers, Sequences, FiniteSets, TLC

\* ---------------------------------------------------------------- bounds
\* max_rounds ranges over 0..MaxRoundsArg
MaxRoundsArg == 2
\* a response's content holds 0..MaxBlocks content blocks
MaxBlocks == 2
\* a thread makes at most MaxQueries queries
MaxQueries == 2
\* the Response Generator executes at most MaxExecs tools in one query
MaxExecs == 2
\* a search returns at most MaxHits hits
MaxHits == 2

\* ---------------------------------------------------------------- inputs
Queries == {"q"}
\* the tools argument: None, an empty list, or a list of tool schemas
ToolsArgs == {"None", "empty", "schemas"}
\* the tool_manager argument: None or a manager object
ToolManagerArgs == {"None", "manager"}
MaxRoundsArgs == 0..MaxRoundsArg
\* the conversation_history argument: None, an empty string, or a rendering
Histories == {"None", "", "User: hi\nAssistant: hello"}

StopReasons == {"tool_use", "end_turn"}

\* Content blocks.  A text block has a text attribute; a tool_use block has
\* id, name and input.  Attributes a block does not have are NoAttr.
NoAttr == "<no attribute>"
TextBlock(t) == [type |-> "text", text |-> t, id |-> NoAttr, name |-> NoAttr, input |-> NoAttr]
ToolUseBlock(i, n, a) == [type |-> "tool_use", text |-> NoAttr, id |-> i, name |-> n, input |-> a]
Blocks ==
    { TextBlock("a"),
      ToolUseBlock("t1", "search_course_content", "in1"),
      ToolUseBlock("t2", "get_course_outline", "in2") }

\* The provider gives every tool_use block of one response its own id.
DistinctIds(c) ==
    \A i, j \in 1..Len(c) :
        (i # j /\ c[i].type = "tool_use" /\ c[j].type = "tool_use")
        => c[i].id # c[j].id

\* The blocks of one response differ from each other: a second copy of a
\* block takes the same path through the code as the first.
DistinctBlocks(c) == \A i, j \in 1..Len(c) : c[i] = c[j] => i = j

Contents ==
    { c \in UNION { [1..n -> Blocks] : n \in 0..MaxBlocks } :
         DistinctIds(c) /\ DistinctBlocks(c) }
Responses == [stop_reason : StopReasons, content : Contents]

\* what tool_manager.execute_tool(name, **input) gives back: the text of the
\* named tool, or an exception.  The manager handed in holds the search tool
\* only, so a call of the outline tool comes back as the not-found text.
ToolOutputs(name) ==
    IF name = "search_course_content" THEN {"search result"}
    ELSE {"Tool 'get_course_outline' not found"}
ToolErrors == {"tool failed"}

Return(v) == [kind |-> "return", value |-> v, origin |-> "answer"]
Raise(e, o) == [kind |-> "raise", value |-> e, origin |-> o]
NoResult == [kind |-> "none", value |-> "", origin |-> ""]

\* ---------------------------------------------------------------- state
VARIABLES
    pc,            \* position of the invocation
    query,         \* generate_response arguments
    conversation_history,
    system_content, \* the local system_content, handed to every frame
    tools,
    tool_manager,
    max_rounds,
    messages,      \* the message list (api_params["messages"] / messages)
    response,      \* the response being handled (response / next_response)
    current_round, \* _process_tool_chain's current_round; 0 in generate_response
    block_idx,     \* position of the for loop over response.content
    tool_results,  \* tool_results of the running _process_tool_chain frame
    calls,         \* log of client.messages.create calls, in order
    executions,    \* log of tool_manager.execute_tool calls, in order
    tool_rounds,   \* number of _process_tool_chain frames entered
    result,        \* what generate_response returned or raised
    registered,    \* tool registry: the registered tool names, in order
    tool_of,       \* tool registry: the tool object held under each name
    last_register, \* the latest register call on the tool registry
    last_sources,  \* tool registry: the sources each registered tool holds
    sessions,      \* session store: the retained exchanges of each session
    q_pc,          \* per thread: position of its query
    q_call,        \* per thread: arguments, generator call and results of its query
    q_trace,       \* per thread: what its query has done so far
    last_exec,     \* the latest execution through the tool registry
    store_log,     \* per session: appends made and queries completed
    lists,         \* heap: the list objects, by identity
    writers,       \* per list object: who created it or appended to it
    dicts,         \* heap: the parameter dict objects, by identity
    inv            \* per invocation on one AIGenerator: its frame

gen_vars == <<pc, query, conversation_history, system_content, tools, tool_manager, max_rounds, messages, response,
              current_round, block_idx, tool_results, calls, executions,
              tool_rounds, result>>

orch_vars == <<registered, tool_of, last_register, last_sources, sessions, q_pc, q_call, q_trace,
               last_exec, store_log>>

inv_vars == <<lists, writers, dicts, inv>>

vars == <<pc, query, conversation_history, system_content, tools, tool_manager, max_rounds, messages, response,
          current_round, block_idx, tool_results, calls, executions,
          tool_rounds, result, registered, tool_of, last_register,
          last_sources, sessions, q_pc,
          q_call, q_trace, last_exec, store_log, lists, writers, dicts,
          inv>>

NoResponse == [stop_reason |-> "none", content |-> <<>>]

\* ---------------------------------------------------------------- helpers
\* Python truthiness of the tools argument (None and [] are falsy)
Truthy(t) == t = "schemas"

UserMessage(c) == [role |-> "user", content |-> c]
\* a variant of AssistantMessage that keeps only the tool_use blocks
AssistantMessage_Mutant(c) ==
    [role |-> "assistant", content |-> SelectSeq(c, LAMBDA b : b.type = "tool_use")]
\* {"role": "assistant", "content": response.content}
AssistantMessage(c) == [role |-> "assistant", content |-> c]

IsToolUse(b) == b.type = "tool_use"

\* the tool_use blocks of a content list, in order
ToolUses(content) == SelectSeq(content, IsToolUse)

\* a variant of NextToolUse that goes straight to the last tool_use block
NextToolUse_Mutant(content, i) ==
    IF \E j \in i..Len(content) : IsToolUse(content[j])
    THEN CHOOSE j \in i..Len(content) :
            /\ IsToolUse(content[j])
            /\ \A k \in (j+1)..Len(content) : ~IsToolUse(content[k])
    ELSE 0
\* index of the first tool_use block at position >= i, or 0
NextToolUse(content, i) ==
    IF \E j \in i..Len(content) : IsToolUse(content[j])
    THEN CHOOSE j \in i..Len(content) :
            /\ IsToolUse(content[j])
            /\ \A k \in i..(j-1) : ~IsToolUse(content[k])
    ELSE 0

\* the class constant SYSTEM_PROMPT
SYSTEM_PROMPT == "SYSTEM_PROMPT"

\* Python truthiness of conversation_history (None and "" are falsy)
HistoryGiven(h) == h \notin {"None", ""}

\* a variant of SystemContent that appends whatever history argument it gets
SystemContent_Mutant(h) ==
    <<SYSTEM_PROMPT, "\n\nPrevious conversation:\n", h>>
\* system_content = f"{SYSTEM_PROMPT}\n\nPrevious conversation:\n{history}"
\* if conversation_history else SYSTEM_PROMPT
SystemContent(h) ==
    IF HistoryGiven(h)
    THEN <<SYSTEM_PROMPT, "\n\nPrevious conversation:\n", h>>
    ELSE <<SYSTEM_PROMPT>>

\* a variant of ToolChoice that always asks for automatic tool choice
ToolChoice_Mutant(withTools) == TRUE
\* params["tool_choice"] = {"type": "auto"}, set together with params["tools"]
ToolChoice(withTools) == withTools

NoTools == "<no tools parameter>"
\* a variant of ToolsParam that sends an empty schema list
ToolsParam_Mutant(t, withTools) == IF withTools THEN "empty" ELSE NoTools
\* params["tools"] = tools, when tools are included
ToolsParam(t, withTools) == IF withTools THEN t ELSE NoTools

\* the request of one client.messages.create call
ApiCall(msgs, sys, t, withTools, round) ==
    [tools |-> withTools, tool_schemas |-> ToolsParam(t, withTools),
     tool_choice |-> ToolChoice(withTools), system |-> sys, messages |-> msgs,
     round |-> round, outcome |-> "pending", response |-> NoResponse]

\* the running call returned resp
Answered(cs, resp) ==
    [cs EXCEPT ![Len(cs)].outcome = "ok", ![Len(cs)].response = resp]

\* the running call raised
Failed(cs) == [cs EXCEPT ![Len(cs)].outcome = "error"]

\* if tools: api_params["tools"] = tools; tool_choice = auto
FirstCallHasTools(t) == Truthy(t)

\* a variant of EntersToolChain that goes by the blocks, not the stop reason
EntersToolChain_ByBlocks(resp, tm, t) ==
    /\ \E i \in 1..Len(resp.content) : resp.content[i].type = "tool_use"
    /\ tm # "None"
    /\ Truthy(t)
\* a variant of EntersToolChain that does not ask for a tool manager
EntersToolChain_NoManager(resp, tm, t) ==
    /\ resp.stop_reason = "tool_use"
    /\ Truthy(t)
\* if response.stop_reason == "tool_use" and tool_manager and tools
EntersToolChain(resp, tm, t) ==
    /\ resp.stop_reason = "tool_use"
    /\ tm # "None"
    /\ Truthy(t)

\* a variant of IncludeTools that is off by one (<= for <)
IncludeTools_Mutant(cr, mr) == cr <= mr
\* include_tools = current_round < max_rounds
IncludeTools(cr, mr) == cr < mr

\* a variant of Recurses that goes on whenever the response asks for a tool,
\* also after a call made without tool schemas
Recurses_Mutant(resp, include, cr, mr) ==
    /\ resp.stop_reason = "tool_use"
    /\ cr <= mr
\* next_response.stop_reason == "tool_use" and include_tools
\* and current_round < max_rounds
Recurses(resp, include, cr, mr) ==
    /\ resp.stop_reason = "tool_use"
    /\ include
    /\ cr < mr

\* a variant of ToolResultBlock that echoes the tool's name instead of the id
ToolResultBlock_Mutant(b, out) ==
    [type |-> "tool_result", tool_use_id |-> b.name, content |-> out]
\* a variant of ToolResultBlock that labels the tool's text
ToolResultBlock_Labelled(b, out) ==
    [type |-> "tool_result", tool_use_id |-> b.id, content |-> "Result: text"]
\* {"type": "tool_result", "tool_use_id": content_block.id, "content": tool_result}
ToolResultBlock(b, out) ==
    [type |-> "tool_result", tool_use_id |-> b.id, content |-> out]

\* a variant of AppendAssistant that keeps only the original user message
\* before the new assistant message
AppendAssistant_Mutant(msgs, content) ==
    <<msgs[1], AssistantMessage(content)>>
\* messages.append({"role": "assistant", "content": response.content})
AppendAssistant(msgs, content) == Append(msgs, AssistantMessage(content))

\* a variant of AppendToolResults that appends one user message per result
AppendToolResults_Mutant(msgs, trs) ==
    IF trs # <<>>
    THEN msgs \o [i \in 1..Len(trs) |-> UserMessage(<<trs[i]>>)]
    ELSE msgs
\* a variant of AppendToolResults that appends the user message always
AppendToolResults_Always(msgs, trs) == Append(msgs, UserMessage(trs))
\* if tool_results: messages.append({"role": "user", "content": tool_results})
AppendToolResults(msgs, trs) ==
    IF trs # <<>> THEN Append(msgs, UserMessage(trs)) ELSE msgs

\* response.content[0].text: the outcomes of evaluating it.  An empty content
\* list raises IndexError.  A block without a text attribute (the SDK's
\* tool_use block) raises AttributeError; a block object that carries an
\* empty text attribute whatever its type (the tests' MockContentBlock)
\* gives "".
FirstBlockText(resp) ==
    IF Len(resp.content) = 0 THEN {Raise("IndexError", "answer")}
    ELSE IF resp.content[1].text # NoAttr THEN {Return(resp.content[1].text)}
    ELSE {Raise("AttributeError", "answer"), Return("")}

Finished(r) == IF r.kind = "return" THEN "returned" ELSE "raised"

\* ---------------------------------------------------------------- Init
GenInit ==
    /\ pc = "start"
    /\ query = "q"
    /\ conversation_history = "None"
    /\ system_content = <<>>
    /\ tools = "None"
    /\ tool_manager = "None"
    /\ max_rounds = 0
    /\ messages = <<>>
    /\ response = NoResponse
    /\ current_round = 0
    /\ block_idx = 0
    /\ tool_results = <<>>
    /\ calls = <<>>
    /\ executions = <<>>
    /\ tool_rounds = 0
    /\ result = NoResult

\* ---------------------------------------------------------------- actions
\* generate_response up to the first client.messages.create call
GenerateResponse ==
    /\ UNCHANGED <<orch_vars, inv_vars>>
    /\ pc = "start"
    /\ \E q \in Queries, h \in Histories, t \in ToolsArgs,
          tm \in ToolManagerArgs, mr \in MaxRoundsArgs :
        /\ query' = q
        /\ conversation_history' = h
        /\ system_content' = SystemContent(h)
        /\ tools' = t
        /\ tool_manager' = tm
        /\ max_rounds' = mr
        /\ messages' = <<UserMessage(q)>>
        /\ calls' = <<ApiCall(<<UserMessage(q)>>, SystemContent(h), t,
                              FirstCallHasTools(t), 0)>>
    /\ pc' = "create_first"
    /\ UNCHANGED <<response, current_round, block_idx, tool_results,
                   executions, tool_rounds, result>>

\* the first call returns: either _process_tool_chain is entered with
\* current_round = 1 (and the assistant message appended), or
\* response.content[0].text is returned
FirstCreateReturns ==
    /\ UNCHANGED <<orch_vars, inv_vars>>
    /\ pc = "create_first"
    /\ \E resp \in Responses :
        /\ response' = resp
        /\ calls' = Answered(calls, resp)
        /\ IF EntersToolChain(resp, tool_manager, tools)
           THEN /\ messages' = AppendAssistant(messages, resp.content)
                /\ current_round' = 1
                /\ tool_rounds' = tool_rounds + 1
                /\ tool_results' = <<>>
                /\ block_idx' = 1
                /\ pc' = "tool_loop"
                /\ UNCHANGED result
           ELSE /\ \E r \in FirstBlockText(resp) :
                      /\ result' = r
                      /\ pc' = Finished(r)
                /\ UNCHANGED <<messages, current_round, tool_rounds,
                               tool_results, block_idx>>
    /\ UNCHANGED <<query, conversation_history, system_content, tools,
                   tool_manager, max_rounds, executions>>

\* the first call raises: the exception leaves generate_response
FirstCreateRaises ==
    /\ UNCHANGED <<orch_vars, inv_vars>>
    /\ pc = "create_first"
    /\ calls' = Failed(calls)
    /\ result' = Raise("APIError", "transport")
    /\ pc' = "raised"
    /\ UNCHANGED <<query, conversation_history, system_content, tools,
                   tool_manager, max_rounds, messages, response,
                   current_round, block_idx, tool_results, executions,
                   tool_rounds>>

\* a variant of Execution that passes the same arguments for every tool
Execution_Mutant(b, o) ==
    [call |-> Len(calls), round |-> current_round, id |-> b.id,
     name |-> b.name, input |-> "in1", outcome |-> o]
\* tool_manager.execute_tool(content_block.name, **content_block.input)
Execution(b, o) ==
    [call |-> Len(calls), round |-> current_round, id |-> b.id,
     name |-> b.name, input |-> b.input, outcome |-> o]

\* the for loop reaches the next tool_use block and
\* tool_manager.execute_tool returns a text
ExecuteToolReturns ==
    /\ UNCHANGED <<orch_vars, inv_vars>>
    /\ pc = "tool_loop"
    /\ NextToolUse(response.content, block_idx) # 0
    /\ LET j == NextToolUse(response.content, block_idx)
           b == response.content[j]
       IN \E out \in ToolOutputs(b.name) :
            /\ tool_results' = Append(tool_results, ToolResultBlock(b, out))
            /\ executions' = Append(executions, Execution(b, Return(out)))
            /\ block_idx' = j + 1
    /\ UNCHANGED <<pc, query, conversation_history, system_content, tools,
                   tool_manager, max_rounds, messages,
                   response, current_round, calls, tool_rounds, result>>

\* tool_manager.execute_tool raises: nothing catches it
ExecuteToolRaises ==
    /\ UNCHANGED <<orch_vars, inv_vars>>
    /\ pc = "tool_loop"
    /\ NextToolUse(response.content, block_idx) # 0
    /\ LET j == NextToolUse(response.content, block_idx)
           b == response.content[j]
       IN \E e \in ToolErrors :
            /\ executions' = Append(executions, Execution(b, Raise(e, "tool")))
            /\ result' = Raise(e, "tool")
            /\ block_idx' = j
    /\ pc' = "raised"
    /\ UNCHANGED <<query, conversation_history, system_content, tools,
                   tool_manager, max_rounds, messages, response,
                   current_round, tool_results, calls, tool_rounds>>

\* the for loop is over: append the tool results, decide include_tools and
\* make the next client.messages.create call
CreateNext ==
    /\ UNCHANGED <<orch_vars, inv_vars>>
    /\ pc = "tool_loop"
    /\ NextToolUse(response.content, block_idx) = 0
    /\ messages' = AppendToolResults(messages, tool_results)
    /\ calls' = Append(calls, ApiCall(messages', system_content, tools,
                                      IncludeTools(current_round, max_rounds),
                                      tool_rounds))
    /\ block_idx' = Len(response.content) + 1
    /\ pc' = "create_next"
    /\ UNCHANGED <<query, conversation_history, system_content, tools,
                   tool_manager, max_rounds, response,
                   current_round, tool_results, executions, tool_rounds,
                   result>>

\* the next call returns: recurse with current_round + 1, or return
\* next_response.content[0].text
NextCreateReturns ==
    /\ UNCHANGED <<orch_vars, inv_vars>>
    /\ pc = "create_next"
    /\ \E resp \in Responses :
        /\ response' = resp
        /\ calls' = Answered(calls, resp)
        /\ IF Recurses(resp, IncludeTools(current_round, max_rounds),
                       current_round, max_rounds)
           THEN /\ messages' = AppendAssistant(messages, resp.content)
                /\ current_round' = current_round + 1
                /\ tool_rounds' = tool_rounds + 1
                /\ tool_results' = <<>>
                /\ block_idx' = 1
                /\ pc' = "tool_loop"
                /\ UNCHANGED result
           ELSE /\ \E r \in FirstBlockText(resp) :
                      /\ result' = r
                      /\ pc' = Finished(r)
                /\ UNCHANGED <<messages, current_round, tool_rounds,
                               tool_results, block_idx>>
    /\ UNCHANGED <<query, conversation_history, system_content, tools,
                   tool_manager, max_rounds, executions>>

\* a variant of NextCreateRaises that swallows the failure and repeats the call
NextCreateRaises_Mutant ==
    /\ UNCHANGED <<orch_vars, inv_vars>>
    /\ pc = "create_next"
    /\ calls' = Append(Failed(calls),
                       ApiCall(messages, system_content, tools,
                               IncludeTools(current_round, max_rounds),
                               tool_rounds))
    /\ UNCHANGED <<pc, query, conversation_history, system_content, tools,
                   tool_manager, max_rounds, messages,
                   response, current_round, block_idx, tool_results,
                   executions, tool_rounds, result>>

\* the next call raises: the exception leaves every frame
NextCreateRaises ==
    /\ UNCHANGED <<orch_vars, inv_vars>>
    /\ pc = "create_next"
    /\ calls' = Failed(calls)
    /\ result' = Raise("APIError", "transport")
    /\ pc' = "raised"
    /\ UNCHANGED <<query, conversation_history, system_content, tools,
                   tool_manager, max_rounds, messages, response,
                   current_round, block_idx, tool_results, executions,
                   tool_rounds>>

\* ================================================================
\* The query orchestrator, the tool registry, the search tool and the
\* session store, modelled from the specification and the tests.
\* ================================================================
None == "None"

\* the threads that may run RAGSystem.query on one orchestrator
Threads == {"p1", "p2"}
\* the one thread of a sequential run
SeqThreads == {"p1"}

\* the caller's texts, as sequences of parts
Texts == {<<"Q1">>, <<"Q2">>}
SessionIds == {"s1", "s2"}
\* what the Response Generator returns as the final answer
Answers == {"A1"}
\* the session store retains this many exchanges per session
MaxHistory == 2

SearchTool == "search_course_content"
OutlineTool == "get_course_outline"
ExtraTool == "extra_tool"
\* the names a tool definition may declare
ToolNames == {SearchTool, OutlineTool, ExtraTool, ""}

\* the capabilities handed to register: a second search tool, a tool whose
\* definition has no name, one whose name is empty, and one more tool
ToolCandidates ==
    { [obj |-> "search_tool_2", has_name |-> TRUE, name |-> SearchTool],
      [obj |-> "unnamed_tool", has_name |-> FALSE, name |-> ""],
      [obj |-> "empty_named_tool", has_name |-> TRUE, name |-> ""],
      [obj |-> ExtraTool, has_name |-> TRUE, name |-> ExtraTool] }

\* the tool objects: the two the orchestrator constructs (known by their
\* names) and the candidates
ToolObjects == {SearchTool, OutlineTool} \cup {c.obj : c \in ToolCandidates}
\* the tool names the model may ask the registry for
RequestedNames == {SearchTool, OutlineTool, "unknown_tool"}

Range(f) == {f[i] : i \in DOMAIN f}

\* ---- retrieval collaborator: what search() gives back
Hits ==
    { [course_title |-> "MCP Course", has_lesson |-> TRUE, lesson_number |-> 1,
       document |-> "d1"],
      [course_title |-> "AI Fundamentals", has_lesson |-> FALSE, lesson_number |-> 0,
       document |-> "d2"] }
\* a search gives each chunk at most once
DistinctHits(h) == \A i, j \in 1..Len(h) : h[i] = h[j] => i = j
HitLists == { h \in UNION { [1..n -> Hits] : n \in 0..MaxHits } : DistinctHits(h) }
SearchErrors == {"No course found matching 'FakeCourse'"}
SearchResults ==
    { [error |-> e, hits |-> <<>>] : e \in SearchErrors }
    \cup { [error |-> None, hits |-> h] : h \in HitLists }

\* the filters of a tool call: course_name (or none) and lesson_number
\* (or none)
ToolFilters ==
    { [course_name |-> c, has_lesson |-> l,
       lesson_number |-> IF l THEN 3 ELSE 0] :
         c \in {None, "MCP"}, l \in BOOLEAN }
NoFilters == [course_name |-> None, has_lesson |-> FALSE, lesson_number |-> 0]
\* the collaborator's resolution of a course name: the exact title, or none
Resolutions == {None, "AI Fundamentals"}

\* ---- search tool
\* displayText: "<course title>", with " - Lesson <n>" when the hit has a lesson
SourceText(hit) ==
    IF hit.has_lesson
    THEN <<hit.course_title, " - Lesson ", hit.lesson_number>>
    ELSE <<hit.course_title>>
\* the collaborator's lesson-link lookup; absent without a lesson
LessonLink(hit) == IF hit.has_lesson THEN "https://example.com/lesson/1" ELSE None
SourceOf(hit) == [text |-> SourceText(hit), url |-> LessonLink(hit)]

\* a variant of SearchSources that keeps the sources held before
SearchSources_Mutant(held, res) ==
    held \o [i \in 1..Len(res.hits) |-> SourceOf(res.hits[i])]
\* the sources the search tool holds after an execution: one Source per hit,
\* in hit order, in place of the sources held before
SearchSources(held, res) == [i \in 1..Len(res.hits) |-> SourceOf(res.hits[i])]

\* the calls of the collaborator's search() in one execution
SearchAttempts(res) == 1

\* the clauses naming the filters actually supplied: the course, then the
\* lesson
FilterClauses(f) ==
    (IF f.course_name # None
     THEN <<" in course '", f.course_name, "'">> ELSE <<>>)
    \o (IF f.has_lesson THEN <<" in lesson ", f.lesson_number>> ELSE <<>>)

\* a variant of SearchText that wraps the collaborator's error
SearchText_Mutant(res, f) ==
    IF res.error # None
    THEN [kind |-> "error", parts |-> <<"Search failed: ", res.error>>]
    ELSE IF res.hits = <<>>
    THEN [kind |-> "empty",
          parts |-> <<"No relevant content found">> \o FilterClauses(f)]
    ELSE [kind |-> "hits",
          parts |-> [i \in 1..Len(res.hits) |->
                        <<"[", SourceText(res.hits[i]), "]", res.hits[i].document>>]]
\* the text the search tool returns for the collaborator's result res of a
\* search with the filters f
SearchText(res, f) ==
    IF res.error # None THEN [kind |-> "error", parts |-> <<res.error>>]
    ELSE IF res.hits = <<>>
    THEN [kind |-> "empty",
          parts |-> <<"No relevant content found">> \o FilterClauses(f)]
    ELSE [kind |-> "hits",
          parts |-> [i \in 1..Len(res.hits) |->
                        <<"[", SourceText(res.hits[i]), "]", res.hits[i].document>>]]

\* ---- outline tool
\* the text the outline tool returns for the course name of f, which the
\* collaborator resolved to title (or to none): the outline with title,
\* link and lessons, or a not-found message naming the given course name
OutlineText(f, title) ==
    IF title = None
    THEN [kind |-> "no_course",
          parts |-> <<"No course found matching '", f.course_name, "'">>]
    ELSE [kind |-> "outline",
          parts |-> <<"Course: ", title, "Link: ", "Lessons:">>]

\* the text of a registry on which nothing was executed yet
NoText == [kind |-> "none", parts |-> <<>>]

\* ---- tool registry
\* a variant of NotFoundText that does not name the tool
NotFoundText_Mutant(name) == [kind |-> "not_found", parts |-> <<"Tool not found">>]
\* the literal not-found message: Tool '<name>' not found
NotFoundText(name) == [kind |-> "not_found", parts |-> <<"Tool '", name, "' not found">>]

\* execute(name, ...): the text returned
ExecuteText(reg, name, f, res, title) ==
    IF name \notin Range(reg) THEN NotFoundText(name)
    ELSE IF name = SearchTool THEN SearchText(res, f)
    ELSE OutlineText(f, title)

\* execute(name, ...): the tool that runs, if any
ToolRun(reg, name) == IF name \in Range(reg) THEN name ELSE None

\* execute(name, ...): the sources held afterwards
ExecuteSources(reg, ls, name, res) ==
    IF name \in Range(reg) /\ name = SearchTool
    THEN [ls EXCEPT ![tool_of[SearchTool]] =
                        SearchSources(ls[tool_of[SearchTool]], res)]
    ELSE ls

\* collectedSources(): every registered tool's sources, in registration order
RECURSIVE CollectedSources(_, _)
CollectedSources(reg, ls) ==
    IF reg = <<>> THEN <<>>
    ELSE ls[tool_of[Head(reg)]] \o CollectedSources(Tail(reg), ls)

\* Source lists are objects with an identity: the list a tool holds, named
\* by the tool object, or a list the registry made for the caller.
OwnList == "<list made by collectedSources>"

\* a variant of ReadOutObject that hands out the list held by the first
\* registered tool that holds sources, instead of a list of its own
ReadOutObject_Mutant(reg, ls) ==
    IF \E i \in 1..Len(reg) : ls[tool_of[reg[i]]] # <<>>
    THEN tool_of[reg[CHOOSE i \in 1..Len(reg) :
                        /\ ls[tool_of[reg[i]]] # <<>>
                        /\ \A j \in 1..(i - 1) : ls[tool_of[reg[j]]] = <<>>]]
    ELSE OwnList
\* collectedSources(): the list object handed back.  The sources are copied
\* out by the registry: the concatenation is a list of its own, not a list
\* held by a tool.
ReadOutObject(reg, ls) == OwnList

\* what a reference to list object obj shows: the items put into the
\* registry's own list when it was made, or what the tool's list holds now
SourcesSeen(obj, items, ls) == IF obj = OwnList THEN items ELSE ls[obj]

\* a variant of ResetSources that forgets the search tool
ResetSources_Mutant(reg, ls) ==
    [o \in DOMAIN ls |->
        IF \E n \in Range(reg) : n # SearchTool /\ tool_of[n] = o
        THEN <<>> ELSE ls[o]]
\* resetSources(): clears every registered tool's source list
ResetSources(reg, ls) ==
    [o \in DOMAIN ls |->
        IF \E n \in Range(reg) : tool_of[n] = o THEN <<>> ELSE ls[o]]

\* definitions(): the registered tools' definitions, in registration order
ToolDefinitions(reg) == [i \in 1..Len(reg) |-> [name |-> reg[i]]]

\* ---- session store
NoHistory == [given |-> FALSE, text |-> <<>>]
\* history(sessionId): the rendering of the retained exchanges, or none
History(exs) ==
    IF exs = <<>> THEN NoHistory
    ELSE [given |-> TRUE,
          text |-> [i \in 1..Len(exs) |->
                      <<"User: ", exs[i].user, "Assistant: ", exs[i].assistant>>]]
\* appendExchange: keeps the most recent MaxHistory exchanges
AddExchange(exs, u, a) ==
    LET all == Append(exs, [user |-> u, assistant |-> a])
    IN IF Len(all) > MaxHistory
       THEN SubSeq(all, Len(all) - MaxHistory + 1, Len(all))
       ELSE all

\* ---- orchestrator
\* the fixed instructional template around the user's text
Template(text) == <<"Answer this question about course materials: ">> \o text

NoCall ==
    [text |-> <<>>, session_id |-> None, query |-> <<>>, history |-> NoHistory,
     tools |-> <<>>, tool_manager |-> None, answer |-> None, sources |-> <<>>,
     sources_obj |-> OwnList, outcome |-> "none"]
NoTrace ==
    [n |-> 0, store_reads |-> 0, store_writes |-> 0, source_reads |-> 0,
     source_resets |-> 0, reset_before_read |-> FALSE, execs |-> 0,
     sources_at_start |-> <<>>, own_sources |-> <<>>, sources_read |-> <<>>,
     sessions_at_start |-> [sid \in SessionIds |-> <<>>]]
NoExec ==
    [thread |-> None, name |-> None, text |-> NoText,
     ran |-> None, raised |-> FALSE,
     before |-> [n \in ToolObjects |-> <<>>],
     after |-> [n \in ToolObjects |-> <<>>],
     registered_after |-> <<>>, error |-> None, searches |-> 0,
     hits |-> <<>>, n |-> 0]

NoRegister ==
    [obj |-> None, has_name |-> FALSE, name |-> "", outcome |-> "none",
     registered_before |-> <<>>, tool_of_before |-> [n \in ToolNames |-> None]]

OrchInit ==
    /\ registered = <<SearchTool, OutlineTool>>
    /\ tool_of = [n \in ToolNames |->
                    IF n \in {SearchTool, OutlineTool} THEN n ELSE None]
    /\ last_register = NoRegister
    /\ last_sources = [n \in ToolObjects |-> <<>>]
    /\ sessions = [sid \in SessionIds |-> <<>>]
    /\ q_pc = [p \in Threads |-> "idle"]
    /\ q_call = [p \in Threads |-> NoCall]
    /\ q_trace = [p \in Threads |-> NoTrace]
    /\ last_exec = NoExec
    /\ store_log = [sid \in SessionIds |-> [appends |-> 0, answered |-> 0]]

\* the queries started so far, over every thread
QueriesStarted == q_trace["p1"].n + q_trace["p2"].n

\* a variant of HistoryReads that reads history for every query
HistoryReads_Mutant(sid) == 1
\* the history lookups of one query: one when a session id is given
HistoryReads(sid) == IF sid # None THEN 1 ELSE 0

\* a variant of QueryHistory that never looks the session up
QueryHistory_Mutant(sid) == NoHistory
\* history lookup: only when a session id is given
QueryHistory(sid) == IF sid # None THEN History(sessions[sid]) ELSE NoHistory

\* query(text, sessionId?) up to the call of the Response Generator
Query(p) ==
    /\ UNCHANGED <<gen_vars, inv_vars>>
    /\ q_pc[p] = "idle"
    /\ QueriesStarted < MaxQueries
    /\ \E text \in Texts, sid \in SessionIds \cup {None} :
        /\ q_call' = [q_call EXCEPT ![p] =
              [text |-> text, session_id |-> sid, query |-> Template(text),
               history |-> QueryHistory(sid),
               tools |-> ToolDefinitions(registered),
               tool_manager |-> "registry", answer |-> None,
               sources |-> <<>>, sources_obj |-> OwnList,
               outcome |-> "none"]]
        /\ q_trace' = [q_trace EXCEPT ![p] =
              [NoTrace EXCEPT !.n = q_trace[p].n + 1,
                              !.store_reads = HistoryReads(sid),
                              !.sources_at_start =
                                  CollectedSources(registered, last_sources),
                              !.sessions_at_start = sessions]]
    /\ q_pc' = [q_pc EXCEPT ![p] = "generating"]
    /\ UNCHANGED <<registered, tool_of, last_register, last_sources, sessions, last_exec, store_log>>

\* the Response Generator, working for p's query, executes a tool through
\* the registry
GeneratorExecutesTool(p) ==
    /\ UNCHANGED <<gen_vars, inv_vars>>
    /\ q_pc[p] = "generating"
    /\ last_exec.n < MaxExecs
    /\ UNCHANGED <<registered, tool_of, last_register>>
    /\ \E name \in RequestedNames, f \in ToolFilters, res \in SearchResults,
          title \in Resolutions :
        /\ name # SearchTool => res.hits = <<>> /\ res.error = None
        /\ name # OutlineTool => title = None
        /\ name = OutlineTool => f.course_name # None /\ ~f.has_lesson
        /\ name \notin {SearchTool, OutlineTool} => f = NoFilters
        /\ last_sources' = ExecuteSources(registered, last_sources, name, res)
        /\ last_exec' = [thread |-> p, name |-> name,
                         text |-> ExecuteText(registered, name, f, res,
                                             title),
                         ran |-> ToolRun(registered, name), raised |-> FALSE,
                         before |-> last_sources, after |-> last_sources',
                         registered_after |-> registered,
                         error |-> res.error,
                         searches |-> IF ToolRun(registered, name) = SearchTool
                                      THEN SearchAttempts(res) ELSE 0,
                         hits |-> res.hits,
                         n |-> last_exec.n + 1]
        /\ q_trace' = [q_trace EXCEPT
              ![p].execs = @ + 1,
              ![p].own_sources =
                  IF name = SearchTool /\ name \in Range(registered)
                  THEN SearchSources(@, res) ELSE @]
    /\ UNCHANGED <<sessions, q_pc, q_call, store_log>>

\* the Response Generator returns the final answer
GeneratorReturns(p) ==
    /\ UNCHANGED <<gen_vars, inv_vars>>
    /\ q_pc[p] = "generating"
    /\ \E a \in Answers : q_call' = [q_call EXCEPT ![p].answer = a]
    /\ q_pc' = [q_pc EXCEPT ![p] = "answered"]
    /\ store_log' = IF q_call[p].session_id # None
                    THEN [store_log EXCEPT ![q_call[p].session_id].answered = @ + 1]
                    ELSE store_log
    /\ UNCHANGED <<registered, tool_of, last_register, last_sources, sessions, q_trace, last_exec>>

\* the Response Generator raises: the error leaves query()
GeneratorRaises(p) ==
    /\ UNCHANGED <<gen_vars, inv_vars>>
    /\ q_pc[p] = "generating"
    /\ q_call' = [q_call EXCEPT ![p].outcome = "raised"]
    /\ q_pc' = [q_pc EXCEPT ![p] = "idle"]
    /\ UNCHANGED <<registered, tool_of, last_register, last_sources, sessions, q_trace, last_exec,
                   store_log>>

\* sources = collectedSources()
ReadSources(p) ==
    /\ UNCHANGED <<gen_vars, inv_vars>>
    /\ q_pc[p] = "answered"
    /\ q_call' = [q_call EXCEPT
          ![p].sources = CollectedSources(registered, last_sources),
          ![p].sources_obj = ReadOutObject(registered, last_sources)]
    /\ q_trace' = [q_trace EXCEPT
          ![p].source_reads = @ + 1,
          ![p].sources_read = CollectedSources(registered, last_sources)]
    /\ q_pc' = [q_pc EXCEPT ![p] = "sources_read"]
    /\ UNCHANGED <<registered, tool_of, last_register, last_sources, sessions, last_exec, store_log>>

\* a variant of ClearSources that resets before the sources are read
ClearSources_Mutant(p) ==
    /\ UNCHANGED <<gen_vars, inv_vars>>
    /\ q_pc[p] = "answered"
    /\ last_sources' = ResetSources(registered, last_sources)
    /\ q_trace' = [q_trace EXCEPT
          ![p].source_resets = @ + 1,
          ![p].reset_before_read = (q_trace[p].source_reads = 0)]
    /\ q_pc' = [q_pc EXCEPT ![p] = "sources_reset"]
    /\ UNCHANGED <<registered, tool_of, last_register, sessions, q_call, last_exec, store_log>>
\* resetSources(): every registered tool's list is cleared, in place; the
\* orchestrator's sources show what the list object it refers to holds then
ClearSources(p) ==
    /\ UNCHANGED <<gen_vars, inv_vars>>
    /\ q_pc[p] = "sources_read"
    /\ last_sources' = ResetSources(registered, last_sources)
    /\ q_trace' = [q_trace EXCEPT
          ![p].source_resets = @ + 1,
          ![p].reset_before_read = (q_trace[p].source_reads = 0)]
    /\ q_call' = [q_call EXCEPT
          ![p].sources =
              SourcesSeen(q_call[p].sources_obj, @,
                          ResetSources(registered, last_sources))]
    /\ q_pc' = [q_pc EXCEPT ![p] = "sources_reset"]
    /\ UNCHANGED <<registered, tool_of, last_register, sessions, last_exec, store_log>>

\* a variant of Exchange that stores the templated prompt
Exchange_Mutant(c) == [user |-> c.query, assistant |-> c.answer]
\* the exchange appended for a finished query
Exchange(c) == [user |-> c.text, assistant |-> c.answer]

\* append the exchange when a session id was given, and return
\* (answer, sources)
Finish(p) ==
    /\ UNCHANGED <<gen_vars, inv_vars>>
    /\ q_pc[p] = "sources_reset"
    /\ LET sid == q_call[p].session_id
       IN IF sid # None
          THEN /\ sessions' = [sessions EXCEPT
                     ![sid] = AddExchange(@, Exchange(q_call[p]).user,
                                          Exchange(q_call[p]).assistant)]
               /\ q_trace' = [q_trace EXCEPT ![p].store_writes = @ + 1]
               /\ store_log' = [store_log EXCEPT ![sid].appends = @ + 1]
          ELSE UNCHANGED <<sessions, q_trace, store_log>>
    /\ q_call' = [q_call EXCEPT ![p].outcome = "returned"]
    /\ q_pc' = [q_pc EXCEPT ![p] = "idle"]
    /\ UNCHANGED <<registered, tool_of, last_register, last_sources, last_exec>>


\* a variant of NameMissing that takes an empty name for a name
NameMissing_Mutant(c) == ~c.has_name
\* the definition declares no name, or an empty one
NameMissing(c) == ~c.has_name \/ c.name = ""

\* register(tool): a ConfigurationError for a missing or empty name;
\* otherwise the tool goes into the name-to-tool mapping under its name,
\* over whatever the mapping held under that name
RegisterTool(c) ==
    /\ UNCHANGED <<gen_vars, inv_vars>>
    /\ IF NameMissing(c)
       THEN /\ UNCHANGED <<registered, tool_of>>
            /\ last_register' =
                  [obj |-> c.obj, has_name |-> c.has_name, name |-> c.name,
                   outcome |-> "ConfigurationError",
                   registered_before |-> registered, tool_of_before |-> tool_of]
       ELSE /\ registered' = IF c.name \in Range(registered)
                             THEN registered ELSE Append(registered, c.name)
            /\ tool_of' = [tool_of EXCEPT ![c.name] = c.obj]
            /\ last_register' =
                  [obj |-> c.obj, has_name |-> c.has_name, name |-> c.name,
                   outcome |-> "ok",
                   registered_before |-> registered, tool_of_before |-> tool_of]
    /\ UNCHANGED <<last_sources, sessions, q_pc, q_call, q_trace, last_exec,
                   store_log>>

\* execute(name, ...) called on the registry outside of any query
RegistryExecute ==
    /\ UNCHANGED <<gen_vars, inv_vars>>
    /\ \A p \in Threads : q_pc[p] = "idle"
    /\ last_exec.n < MaxExecs
    /\ \E name \in RequestedNames, f \in ToolFilters, res \in SearchResults,
          title \in Resolutions :
        /\ name # SearchTool => res.hits = <<>> /\ res.error = None
        /\ name # OutlineTool => title = None
        /\ name = OutlineTool => f.course_name # None /\ ~f.has_lesson
        /\ name \notin {SearchTool, OutlineTool} => f = NoFilters
        /\ last_sources' = ExecuteSources(registered, last_sources, name, res)
        /\ last_exec' = [thread |-> None, name |-> name,
                         text |-> ExecuteText(registered, name, f, res,
                                             title),
                         ran |-> ToolRun(registered, name), raised |-> FALSE,
                         before |-> last_sources, after |-> last_sources',
                         registered_after |-> registered,
                         error |-> res.error,
                         searches |-> IF ToolRun(registered, name) = SearchTool
                                      THEN SearchAttempts(res) ELSE 0,
                         hits |-> res.hits,
                         n |-> last_exec.n + 1]
    /\ UNCHANGED <<registered, tool_of, last_register, sessions, q_pc, q_call,
                   q_trace, store_log>>

\* resetSources() called on the registry outside of any query
RegistryReset ==
    /\ UNCHANGED <<gen_vars, inv_vars>>
    /\ \A p \in Threads : q_pc[p] = "idle"
    /\ last_sources' = ResetSources(registered, last_sources)
    /\ UNCHANGED <<registered, tool_of, last_register, sessions, q_pc, q_call,
                   q_trace, last_exec, store_log>>

\* ------------------------------------------------ invocations, interleaved
\* Two generate_response invocations on one AIGenerator, run one after the
\* other or interleaved at the external calls.  Lists and dicts are objects
\* with an identity: a list literal, list.copy() and a dict literal make a
\* new object, list.append and d[key] = v change an object in place, and an
\* argument or a dict value is a reference to an object.
Invs == {"i1", "i2"}

\* the caller's tools list: one list object, made before the invocations
ToolSchemas ==
    <<[name |-> "search_course_content"], [name |-> "get_course_outline"]>>
ToolsListId == 1
\* the tools argument of an invocation: None, or the caller's tools list
InvToolsArgs == {"None", "schemas"}

\* self.base_params, built by __init__; keys a dict does not have are
\* 0, <<>> and FALSE
BaseParams ==
    [model |-> "model", temperature |-> 0, max_tokens |-> 800,
     messages |-> 0, system |-> <<>>, tools |-> 0, tool_choice |-> FALSE]
BaseParamsId == 1

\* the responses of the model in this specification: a tool request with
\* one tool_use block, or a final text
InvResponses ==
    { [stop_reason |-> "tool_use",
       content |-> <<ToolUseBlock("t1", "search_course_content", "in1")>>],
      [stop_reason |-> "end_turn", content |-> <<TextBlock("a")>>] }

\* a variant of NewId that hands out the identity of the first object again
NewId_Mutant(heap) == 1
\* the identity of an object made by a literal or by list.copy(): one that
\* no object has yet
NewId(heap) == Len(heap) + 1

\* the heap with object id holding v (a new object, or a changed one)
Store(heap, id, v) ==
    IF id > Len(heap) THEN Append(heap, v) ELSE [heap EXCEPT ![id] = v]

\* who has made or changed list object id
AddWriter(w, id, who) ==
    IF id > Len(w) THEN Append(w, {who}) ELSE [w EXCEPT ![id] = @ \cup {who}]

\* {**self.base_params, "messages": messages, "system": system_content}
MergeParams(bp, msgs, sys) == [bp EXCEPT !.messages = msgs, !.system = sys]

\* params["tools"] = tools; params["tool_choice"] = {"type": "auto"}
WithTools(d, t, withTools) ==
    IF withTools
    THEN [d EXCEPT !.tools = t, !.tool_choice = ToolChoice(withTools)]
    ELSE d

NoFrame ==
    [pc |-> "start", tools |-> "None", max_rounds |-> 0, api_params |-> 0,
     next_params |-> 0, messages |-> 0, current_round |-> 0,
     response |-> NoResponse]

InvInit ==
    /\ lists = <<ToolSchemas>>
    /\ writers = <<{"caller"}>>
    /\ dicts = <<BaseParams>>
    /\ inv = [i \in Invs |-> NoFrame]

\* generate_response up to the first client.messages.create call: the list
\* literal and the dict literal of api_params
InvGenerateResponse(i) ==
    /\ inv[i].pc = "start"
    /\ \E q \in Queries, t \in InvToolsArgs, mr \in MaxRoundsArgs :
        LET lid == NewId(lists)
            did == NewId(dicts)
            params == MergeParams(dicts[BaseParamsId], lid,
                                  SystemContent("None"))
        IN /\ lists' = Store(lists, lid, <<UserMessage(q)>>)
           /\ writers' = AddWriter(writers, lid, i)
           /\ dicts' = Store(dicts, did,
                             WithTools(params, ToolsListId,
                                       FirstCallHasTools(t)))
           /\ inv' = [inv EXCEPT ![i] =
                         [@ EXCEPT !.pc = "create_first", !.tools = t,
                                   !.max_rounds = mr, !.api_params = did]]
    /\ UNCHANGED <<gen_vars, orch_vars>>

\* the first call returns: _process_tool_chain is entered with a copy of
\* api_params["messages"], to which it appends the assistant message, or
\* the answer is returned
InvFirstCreateReturns(i) ==
    /\ inv[i].pc = "create_first"
    /\ \E resp \in InvResponses :
        IF EntersToolChain(resp, "manager", inv[i].tools)
        THEN LET lid == NewId(lists)
                 copy == lists[dicts[inv[i].api_params].messages]
             IN /\ lists' = Store(lists, lid,
                                  AppendAssistant(copy, resp.content))
                /\ writers' = AddWriter(writers, lid, i)
                /\ inv' = [inv EXCEPT ![i] =
                              [@ EXCEPT !.pc = "tool_loop",
                                        !.messages = lid,
                                        !.current_round = 1,
                                        !.response = resp]]
        ELSE /\ inv' = [inv EXCEPT ![i].pc = "done", ![i].response = resp]
             /\ UNCHANGED <<lists, writers>>
    /\ UNCHANGED dicts
    /\ UNCHANGED <<gen_vars, orch_vars>>

\* one frame of _process_tool_chain from the tool executions to the next
\* call: the tool results are appended to messages, and next_params is a
\* new dict that refers to messages
InvToolRound(i) ==
    /\ inv[i].pc = "tool_loop"
    /\ LET uses == ToolUses(inv[i].response.content)
           lid == inv[i].messages
           did == NewId(dicts)
           include == IncludeTools(inv[i].current_round, inv[i].max_rounds)
           params == MergeParams(dicts[BaseParamsId], lid,
                                 SystemContent("None"))
       IN /\ \E out \in ToolOutputs(uses[1].name) :
                lists' = [lists EXCEPT ![lid] =
                             AppendToolResults(@,
                                 <<ToolResultBlock(uses[1], out)>>)]
          /\ writers' = AddWriter(writers, lid, i)
          /\ dicts' = Store(dicts, did,
                            WithTools(params, ToolsListId, include))
          /\ inv' = [inv EXCEPT ![i].pc = "create_next",
                                ![i].next_params = did]
    /\ UNCHANGED <<gen_vars, orch_vars>>

\* the next call returns: the next frame gets the same messages list and
\* appends the assistant message to it, or the answer is returned
InvNextCreateReturns(i) ==
    /\ inv[i].pc = "create_next"
    /\ \E resp \in InvResponses :
        IF Recurses(resp,
                    IncludeTools(inv[i].current_round, inv[i].max_rounds),
                    inv[i].current_round, inv[i].max_rounds)
        THEN /\ lists' = [lists EXCEPT ![inv[i].messages] =
                             AppendAssistant(@, resp.content)]
             /\ writers' = AddWriter(writers, inv[i].messages, i)
             /\ inv' = [inv EXCEPT ![i].pc = "tool_loop",
                                   ![i].current_round = @ + 1,
                                   ![i].response = resp]
        ELSE /\ inv' = [inv EXCEPT ![i].pc = "done", ![i].response = resp]
             /\ UNCHANGED <<lists, writers>>
    /\ UNCHANGED dicts
    /\ UNCHANGED <<gen_vars, orch_vars>>

\* a model call or a tool execution raises: the invocation ends there
InvRaises(i) ==
    /\ inv[i].pc \in {"create_first", "tool_loop", "create_next"}
    /\ inv' = [inv EXCEPT ![i].pc = "raised"]
    /\ UNCHANGED <<lists, writers, dicts>>
    /\ UNCHANGED <<gen_vars, orch_vars>>

Init == GenInit /\ OrchInit /\ InvInit

\* two invocations on one AIGenerator
InvocationsNext ==
    \/ \E i \in Invs : InvGenerateResponse(i)
    \/ \E i \in Invs : InvFirstCreateReturns(i)
    \/ \E i \in Invs : InvToolRound(i)
    \/ \E i \in Invs : InvNextCreateReturns(i)
    \/ \E i \in Invs : InvRaises(i)

InvocationsSpec == Init /\ [][InvocationsNext]_vars

\* one thread of control
QueryNext ==
    \/ \E p \in SeqThreads : Query(p)
    \/ \E p \in SeqThreads : GeneratorExecutesTool(p)
    \/ \E p \in SeqThreads : GeneratorReturns(p)
    \/ \E p \in SeqThreads : GeneratorRaises(p)
    \/ \E p \in SeqThreads : ReadSources(p)
    \/ \E p \in SeqThreads : ClearSources(p)
    \/ \E p \in SeqThreads : Finish(p)

QuerySpec == Init /\ [][QueryNext]_vars

\* two threads on one orchestrator and one tool registry
ConcurrentNext ==
    \/ \E p \in Threads : Query(p)
    \/ \E p \in Threads : GeneratorExecutesTool(p)
    \/ \E p \in Threads : GeneratorReturns(p)
    \/ \E p \in Threads : GeneratorRaises(p)
    \/ \E p \in Threads : ReadSources(p)
    \/ \E p \in Threads : ClearSources(p)
    \/ \E p \in Threads : Finish(p)

ConcurrentSpec == Init /\ [][ConcurrentNext]_vars

\* the registry used on its own: registrations, executions and resets
RegistryNext ==
    \/ \E c \in ToolCandidates : RegisterTool(c)
    \/ RegistryExecute
    \/ RegistryReset

RegistrySpec == Init /\ [][RegistryNext]_vars

Next ==
    \/ GenerateResponse
    \/ FirstCreateReturns
    \/ FirstCreateRaises
    \/ ExecuteToolReturns
    \/ ExecuteToolRaises
    \/ CreateNext
    \/ NextCreateReturns
    \/ NextCreateRaises

Spec == Init /\ [][Next]_vars

\* the invocation with every model call and every tool execution coming
\* back (returning or raising) and the code between them running on
LiveSpec == Init /\ [][Next]_vars /\ WF_vars(Next)

TypeOK ==
    /\ pc \in {"start", "create_first", "tool_loop", "create_next", "returned", "raised"}
    /\ max_rounds \in MaxRoundsArgs
    /\ current_round \in 0..(MaxRoundsArg + 1)
    /\ Len(calls) <= MaxRoundsArg + 2

\* ================================================================ claims
\* the invocation was given tool schemas and a tool manager
GivenToolsAndManager == Truthy(tools) /\ tool_manager # "None"

\* the text blocks of a response, as the specification speaks of them
HasTextBlock(content) == \E i \in 1..Len(content) : content[i].type = "text"
FirstTextBlock(content) ==
    content[CHOOSE i \in 1..Len(content) :
                /\ content[i].type = "text"
                /\ \A k \in 1..(i-1) : content[k].type # "text"]

\* C1: an invocation given tool schemas and a tool manager makes at most
\* max_rounds + 1 model calls, for every max_rounds >= 0.
\* (Stated as the claim; the code breaks it for max_rounds = 0.)
C1_AtMostRPlusOneCalls ==
    GivenToolsAndManager => Len(calls) <= max_rounds + 1

\* C2: when the first response does not request tool use, the invocation
\* makes exactly one model call, executes no tool and returns that response's
\* text (the text of its first text block, when it has one).
\* (Stated as the claim; the returned value breaks it, see C10.)
C2_NoToolUseIsSingleCall ==
    (/\ Len(calls) >= 1
     /\ calls[1].outcome = "ok"
     /\ calls[1].response.stop_reason # "tool_use")
    => /\ Len(calls) = 1
       /\ executions = <<>>
       /\ tool_rounds = 0
       /\ HasTextBlock(calls[1].response.content)
            => result = Return(FirstTextBlock(calls[1].response.content).text)

\* C3: every model call that carries tool schemas is made while the number
\* of completed tool rounds is strictly less than max_rounds, the first call
\* included, for every max_rounds >= 0.
\* (Stated as the claim; the code breaks it for max_rounds = 0.)
C3_SchemasOnlyBelowLimit ==
    \A i \in 1..Len(calls) : calls[i].tools => calls[i].round < max_rounds

\* C4: for max_rounds >= 1, the model call that follows the max_rounds-th
\* tool round carries neither tool schemas nor a tool_choice.
C4_CallAfterLastRoundHasNoTools ==
    \A i \in 1..Len(calls) :
        (max_rounds >= 1 /\ calls[i].round = max_rounds)
        => (~calls[i].tools /\ ~calls[i].tool_choice)

\* witness of C4: two tool rounds ran with max_rounds = 2 and the third call
\* was made and answered
C4_Witness ==
    /\ max_rounds = 2
    /\ Len(calls) = 3
    /\ calls[3].round = 2
    /\ calls[3].outcome = "ok"
    /\ calls[3].response.stop_reason = "tool_use"

\* C5: the number of tool rounds an invocation executes never exceeds
\* max_rounds, for every max_rounds >= 0.
\* (Stated as the claim; the code breaks it for max_rounds = 0.)
C5_ToolRoundsWithinLimit == tool_rounds <= max_rounds

\* the results trs answer the tool_use blocks uses one for one, in order,
\* each carrying the id of its block
ResultsAnswer(trs, uses) ==
    /\ Len(trs) = Len(uses)
    /\ \A k \in 1..Len(trs) :
        /\ trs[k].type = "tool_result"
        /\ trs[k].tool_use_id = uses[k].id

\* C6: in every tool round each ToolResult block carries the id of the
\* ToolUse block it was produced for, and the round's ToolUse blocks and
\* ToolResult blocks correspond one to one: while the round's loop runs the
\* results answer the blocks executed so far, and the follow-up user message
\* holds the results of all of them.
C6_ToolResultIdsMatch ==
    pc \in {"tool_loop", "create_next"} =>
        LET uses == ToolUses(response.content)
            done == Len(tool_results)
        IN /\ done <= Len(uses)
           /\ ResultsAnswer(tool_results, SubSeq(uses, 1, done))
           /\ \A k \in 1..done :
                \E e \in 1..Len(executions) :
                    /\ executions[e].round = current_round
                    /\ executions[e].id = tool_results[k].tool_use_id
                    /\ executions[e].outcome = Return(tool_results[k].content)
           /\ (pc = "create_next" /\ uses # <<>>) =>
                /\ done = Len(uses)
                /\ messages[Len(messages)] = UserMessage(tool_results)

\* witness of C6: a round whose response held two ToolUse blocks with
\* different ids has put both results in the follow-up message
C6_Witness ==
    /\ pc = "create_next"
    /\ Len(tool_results) = 2
    /\ tool_results[1].tool_use_id = "t2"
    /\ tool_results[2].tool_use_id = "t1"
    /\ messages[Len(messages)].role = "user"

\* the message list sent of the call that follows the tool round of response
\* r ends with the assistant message of r and then one user message holding
\* the results of r's ToolUse blocks
FollowUpSent(r, sent) ==
    LET n == Len(sent)
    IN /\ n >= 3
       /\ sent[n-1].role = "assistant"
       /\ sent[n-1].content = r.content
       /\ sent[n].role = "user"
       /\ ResultsAnswer(sent[n].content, ToolUses(r.content))

\* C7 as claimed: for every response that triggers a tool round, the message
\* after the assistant message is a single user message with one ToolResult
\* per ToolUse block, in order, appended before the next model call.
C7_Original ==
    \A i \in 2..Len(calls) :
        FollowUpSent(calls[i-1].response, calls[i].messages)

\* C7 as amended: the same, for every response that triggers a tool round and
\* holds at least one ToolUse block.
C7_FollowUpMessage ==
    \A i \in 2..Len(calls) :
        ToolUses(calls[i-1].response.content) # <<>>
        => FollowUpSent(calls[i-1].response, calls[i].messages)

\* witness of C7: the second round's response held two ToolUse blocks and the
\* third call was sent
C7_Witness ==
    /\ Len(calls) = 3
    /\ Len(ToolUses(calls[2].response.content)) = 2
    /\ Len(calls[3].messages) = 5

\* C8: a tool execution that raises does not abort the query: its error text
\* becomes the content of that tool's ToolResult and the next model call is
\* made.
\* (Stated as the claim; the code lets the exception leave the invocation.)
C8_ToolErrorIsNotFatal ==
    \A e \in 1..Len(executions) :
        executions[e].outcome.kind = "raise"
        => /\ ~(pc = "raised" /\ result.origin = "tool")
           /\ \E k \in 1..Len(tool_results) :
                /\ tool_results[k].tool_use_id = executions[e].id
                /\ tool_results[k].content = executions[e].outcome.value

\* C9: a model call that fails ends the invocation with that failure: the
\* failed call is the last model call, no tool is executed after it, and the
\* error reaches the caller.
C9_TransportFailureIsFatal ==
    \A i \in 1..Len(calls) :
        calls[i].outcome = "error"
        => /\ i = Len(calls)
           /\ pc = "raised"
           /\ result = Raise("APIError", "transport")
           /\ \A e \in 1..Len(executions) : executions[e].call < i

\* witness of C9: the call after a tool round failed
C9_Witness ==
    /\ pc = "raised"
    /\ Len(calls) = 2
    /\ calls[2].outcome = "error"
    /\ executions # <<>>

\* C10: the value returned is the text of the first text block of the last
\* response, whatever the shape of that response.
\* (Stated as the claim; the code reads the first block, text or not.)
C10_ReturnsFirstTextBlock ==
    (/\ pc \in {"returned", "raised"}
     /\ result.origin = "answer"
     /\ HasTextBlock(response.content))
    => result = Return(FirstTextBlock(response.content).text)

\* C11: the protocol stops at the first response that holds no tool-use
\* request (its stop reason is not tool_use) or that answers a call made
\* without tool schemas: that call is the invocation's last model call, the
\* invocation has ended, and no tool was executed after it, also when the
\* response to a schema-less call has stop reason tool_use.
C11_StopsAtFinalResponse ==
    \A i \in 1..Len(calls) :
        (/\ calls[i].outcome = "ok"
         /\ \/ calls[i].response.stop_reason # "tool_use"
            \/ ~calls[i].tools)
        => /\ i = Len(calls)
           /\ pc \in {"returned", "raised"}
           /\ result.origin = "answer"
           /\ \A e \in 1..Len(executions) : executions[e].call < i

\* witness of C11: after two tool rounds the schema-less third call was answered
\* with stop reason tool_use and ToolUse blocks, and the invocation ended there
C11_Witness ==
    /\ Len(calls) = 3
    /\ ~calls[3].tools
    /\ calls[3].outcome = "ok"
    /\ calls[3].response.stop_reason = "tool_use"
    /\ ToolUses(calls[3].response.content) # <<>>
    /\ pc \in {"returned", "raised"}

\* ================================================================
\* Claims about the orchestrator, the registry and the session store
\* ================================================================
AfterReturn(p) == q_pc[p] \in {"answered", "sources_read", "sources_reset"}
Returned(p) == q_pc[p] = "idle" /\ q_call[p].outcome = "returned"

\* C12: at the start of every top-level query the tool registry holds no
\* sources, whatever queries ran before on the same registry, including
\* queries that executed tools and then failed in the Response Generator.
C12_NoSourcesAtQueryStart ==
    \A p \in Threads :
        q_trace[p].n > 0 => q_trace[p].sources_at_start = <<>>

\* C13: in every query, once the Response Generator has returned, the
\* sources are read and only then reset; the reset happens exactly once per
\* query and never before the read.
C13_ReadThenResetOnce ==
    \A p \in Threads :
        /\ q_trace[p].source_resets <= 1
        /\ ~q_trace[p].reset_before_read
        /\ q_trace[p].source_resets = 1 => q_trace[p].source_reads = 1
        /\ q_pc[p] \in {"generating", "answered"}
              => q_trace[p].source_reads = 0 /\ q_trace[p].source_resets = 0
        /\ q_pc[p] = "sources_read"
              => q_trace[p].source_reads = 1 /\ q_trace[p].source_resets = 0
        /\ (q_pc[p] = "sources_reset" \/ Returned(p))
              => q_trace[p].source_reads = 1 /\ q_trace[p].source_resets = 1

C13_Witness ==
    /\ Returned("p1")
    /\ q_trace["p1"].execs >= 1
    /\ q_trace["p1"].source_resets = 1
    /\ q_call["p1"].sources # <<>>

\* C14: with two queries running concurrently on one registry, a query
\* that started with no sources held reads exactly the sources its own tool
\* executions recorded: none recorded by the other query, and none of its
\* own lost to the other query's reset.
C14_NoCrossQuerySources ==
    \A p \in Threads :
        (/\ q_trace[p].source_reads = 1
         /\ q_trace[p].sources_at_start = <<>>)
        => q_call[p].sources = q_trace[p].own_sources

\* C15: a query without a session id neither reads nor writes the session
\* store, and the Response Generator gets no conversation history.
C15_NoSessionNoStoreOperation ==
    \A p \in Threads :
        (q_trace[p].n > 0 /\ q_call[p].session_id = None)
        => /\ q_trace[p].store_reads = 0
           /\ q_trace[p].store_writes = 0
           /\ ~q_call[p].history.given
           /\ sessions = q_trace[p].sessions_at_start

C15_Witness ==
    /\ Returned("p1")
    /\ q_call["p1"].session_id = None
    /\ sessions["s1"] # <<>>

\* the queries on session sid whose answer is back but whose exchange is
\* not appended yet
AwaitingAppend(sid) ==
    Cardinality({p \in Threads : AfterReturn(p) /\ q_call[p].session_id = sid})

\* C16: a query with a session id appends exactly one exchange to that
\* session, after the Response Generator returned, holding the caller's
\* original text and the final answer; n answered queries on a session
\* make n appends.
C16_OneExchangePerSessionQuery ==
    /\ \A p \in Threads :
          (q_trace[p].n > 0 /\ q_call[p].session_id # None)
          => LET sid == q_call[p].session_id
                 before == q_trace[p].sessions_at_start[sid]
             IN /\ q_pc[p] # "idle"
                      => /\ q_trace[p].store_writes = 0
                         /\ sessions[sid] = before
                /\ Returned(p)
                      => /\ q_trace[p].store_writes = 1
                         /\ Len(sessions[sid]) =
                               IF Len(before) < MaxHistory
                               THEN Len(before) + 1 ELSE MaxHistory
                         /\ sessions[sid][Len(sessions[sid])] =
                               [user |-> q_call[p].text,
                                assistant |-> q_call[p].answer]
    /\ \A sid \in SessionIds :
          store_log[sid].appends = store_log[sid].answered - AwaitingAppend(sid)

C16_Witness ==
    /\ Returned("p1")
    /\ q_call["p1"].session_id = "s1"
    /\ store_log["s1"].appends = 2
    /\ Len(sessions["s1"]) = 2

\* C17: in the second of two successive queries on a session the history
\* handed to the Response Generator is non-empty and is the store's
\* rendering of the session's exchanges, read once before the model call.
C17_SecondQueryGetsFirstExchange ==
    \A p \in Threads :
        (/\ q_pc[p] # "idle"
         /\ q_call[p].session_id # None
         /\ store_log[q_call[p].session_id].appends > 0)
        => LET exs == sessions[q_call[p].session_id]
               h == q_call[p].history
           IN /\ q_trace[p].store_reads = 1
              /\ h.given
              /\ h.text # <<>>
              /\ Len(h.text) = Len(exs)
              /\ \A i \in 1..Len(exs) :
                    h.text[i] = <<"User: ", exs[i].user,
                                  "Assistant: ", exs[i].assistant>>

C17_Witness ==
    /\ q_pc["p1"] = "generating"
    /\ q_call["p1"].session_id = "s1"
    /\ store_log["s1"].appends = 1
    /\ Len(q_call["p1"].history.text) = 1

\* C18: execute with a name that is not registered returns a text that
\* contains the name, raises nothing, runs no tool and leaves the
\* registered tools and their sources as they were.
C18_UnknownToolIsText ==
    (last_exec.n > 0 /\ last_exec.name \notin Range(registered))
    => /\ last_exec.text.kind = "not_found"
       /\ last_exec.name \in Range(last_exec.text.parts)
       /\ ~last_exec.raised
       /\ last_exec.ran = None
       /\ last_exec.after = last_exec.before
       /\ last_exec.registered_after = registered

C18_Witness ==
    /\ last_exec.name = "unknown_tool"
    /\ last_exec.before[SearchTool] # <<>>

\* C19: collectedSources() right after resetSources() is the empty
\* sequence, whatever was executed before the reset.
C19_EmptyAfterReset ==
    \A p \in Threads :
        q_pc[p] = "sources_reset"
        => CollectedSources(registered, last_sources) = <<>>

C19_Witness ==
    /\ q_pc["p1"] = "sources_reset"
    /\ Len(q_call["p1"].sources) = 2

\* C20: after an execution of the search tool its sources are one Source
\* per hit of that execution, in hit order; what it held before is gone.
C20_SearchReplacesSources ==
    (last_exec.n > 0 /\ last_exec.name = SearchTool)
    => /\ Len(last_exec.after[SearchTool]) = Len(last_exec.hits)
       /\ \A i \in 1..Len(last_exec.hits) :
             last_exec.after[SearchTool][i] = SourceOf(last_exec.hits[i])

C20_Witness ==
    /\ last_exec.name = SearchTool
    /\ last_exec.before[SearchTool] # <<>>
    /\ Len(last_exec.hits) = 2
    /\ q_trace["p1"].execs = 2

\* ================================================================
\* Claims about the search tool's errors and about registration
\* ================================================================
\* C21: when the collaborator answers a search with an error, the search
\* tool returns that error string unchanged, searches once only, and adds
\* no source to the sources it holds.
C21_SearchErrorIsReturnedVerbatim ==
    (/\ last_exec.n > 0
     /\ last_exec.ran = SearchTool
     /\ last_exec.error # None)
    => /\ last_exec.text.kind = "error"
       /\ last_exec.text.parts = <<last_exec.error>>
       /\ last_exec.searches = 1
       /\ ~last_exec.raised
       /\ Range(last_exec.after[SearchTool])
             \subseteq Range(last_exec.before[SearchTool])

C21_Witness ==
    /\ last_exec.ran = SearchTool
    /\ last_exec.error = "No course found matching 'FakeCourse'"
    /\ last_exec.n = 2
    /\ q_trace["p1"].execs = 2

\* C22: registering a capability whose definition has no name, or an empty
\* name, fails with an error and leaves the name-to-tool mapping unchanged.
C22_NamelessRegistrationFails ==
    (/\ last_register.outcome # "none"
     /\ (~last_register.has_name \/ last_register.name = ""))
    => /\ last_register.outcome = "ConfigurationError"
       /\ registered = last_register.registered_before
       /\ tool_of = last_register.tool_of_before

C22_Witness ==
    /\ last_register.obj = "empty_named_tool"
    /\ last_register.outcome = "ConfigurationError"
    /\ Len(registered) = 3

\* C23: registering a second tool under a name that is already registered
\* fails and does not replace the tool registered first.
C23_DuplicateRegistrationFails ==
    (/\ last_register.outcome # "none"
     /\ last_register.has_name
     /\ last_register.name \in Range(last_register.registered_before))
    => /\ last_register.outcome # "ok"
       /\ registered = last_register.registered_before
       /\ tool_of[last_register.name] =
             last_register.tool_of_before[last_register.name]

\* ================================================================
\* Claims about the requests and the message list of one invocation
\* ================================================================
\* C24: in every model call the conversation history is in the system
\* parameter only: appended to the system prompt exactly when a non-empty
\* history was given, in no message of the message list, and the system text
\* is the same in every call of the invocation.
C24_HistoryOnlyInSystem ==
    \A i \in 1..Len(calls) :
        /\ calls[i].system =
              IF conversation_history \notin {"None", ""}
              THEN <<SYSTEM_PROMPT, "\n\nPrevious conversation:\n",
                     conversation_history>>
              ELSE <<SYSTEM_PROMPT>>
        /\ calls[i].system = calls[1].system
        /\ \A j \in 1..Len(calls[i].messages) :
              LET m == calls[i].messages[j]
              IN IF j = 1
                 THEN m.role = "user" /\ m.content = query
                      /\ m.content # conversation_history
                 ELSE \A b \in 1..Len(m.content) :
                         IF m.role = "assistant"
                         THEN m.content[b].text # conversation_history
                         ELSE m.content[b].content # conversation_history

C24_Witness ==
    /\ Len(calls) = 3
    /\ conversation_history \notin {"None", ""}
    /\ Len(calls[3].system) = 3
    /\ pc = "returned"

\* C25: a model call asks for automatic tool choice if and only if tool
\* schemas are attached to it.
C25_ToolChoiceIffTools ==
    \A i \in 1..Len(calls) :
        /\ calls[i].tool_choice <=> calls[i].tools
        /\ calls[i].tools <=> calls[i].tool_schemas # NoTools

C25_Witness ==
    /\ Len(calls) = 2
    /\ calls[1].tools /\ calls[1].tool_choice
    /\ ~calls[2].tools /\ ~calls[2].tool_choice

\* the executions made while call i was the latest model call
ExecutionsAfter(i) == SelectSeq(executions, LAMBDA e : e.call = i)

\* C26: between two consecutive model calls the tool executions are the
\* ToolUse blocks of the earlier call's response, once each, in block order,
\* and all of them have returned before the later call is made.
C26_ExecutionsFollowBlocks ==
    \A i \in 1..(Len(calls) - 1) :
        LET ex == ExecutionsAfter(i)
            tu == ToolUses(calls[i].response.content)
        IN /\ Len(ex) = Len(tu)
           /\ \A k \in 1..Len(tu) :
                 /\ ex[k].id = tu[k].id
                 /\ ex[k].name = tu[k].name
                 /\ ex[k].input = tu[k].input
                 /\ ex[k].outcome.kind = "return"

C26_Witness ==
    /\ Len(calls) = 2
    /\ Len(executions) = 2
    /\ executions[1].id = "t2"
    /\ executions[2].id = "t1"

Roles(msgs) == [j \in 1..Len(msgs) |-> msgs[j].role]

\* C27 as stated: the list sent after k tool rounds has 2k + 1 messages
\* with strictly alternating roles, from user to user.
C27_Original ==
    \A i \in 1..Len(calls) :
        /\ Len(calls[i].messages) = 2 * calls[i].round + 1
        /\ \A j \in 1..Len(calls[i].messages) :
              calls[i].messages[j].role =
                  IF j % 2 = 1 THEN "user" ELSE "assistant"

\* the roles the list sent in call i must have: the user query, then per
\* round the assistant message and, when the round's response held a ToolUse
\* block, the user tool-result message
RECURSIVE RoundRoles(_)
RoundRoles(i) ==
    IF i = 1 THEN <<"user">>
    ELSE RoundRoles(i - 1) \o <<"assistant">>
         \o (IF ToolUses(calls[i - 1].response.content) # <<>>
             THEN <<"user">> ELSE <<>>)

\* C27, amended: the list sent after k tool rounds starts with the user
\* query and holds per round one assistant message followed, when that
\* round's response held a ToolUse block, by one user tool-result message;
\* with a ToolUse block in every round these are 2k + 1 alternating messages.
C27_MessagesPerRound ==
    \A i \in 1..Len(calls) :
        /\ calls[i].round = i - 1
        /\ Roles(calls[i].messages) = RoundRoles(i)
        /\ (\A r \in 1..(i - 1) : ToolUses(calls[r].response.content) # <<>>)
           => /\ Len(calls[i].messages) = 2 * (i - 1) + 1
              /\ \A j \in 1..Len(calls[i].messages) :
                    calls[i].messages[j].role =
                        IF j % 2 = 1 THEN "user" ELSE "assistant"

C27_Witness ==
    /\ Len(calls) = 3
    /\ Len(calls[3].messages) = 5
    /\ Len(calls[3].messages[5].content) = 2

IsPrefix(a, b) == Len(a) <= Len(b) /\ SubSeq(b, 1, Len(a)) = a

\* C28: the message list only grows by appending: the list of each call is a
\* prefix of the list of the next call, and its first message is always the
\* user message with the original query.
C28_MessagesOnlyGrow ==
    /\ \A i \in 1..Len(calls) :
          /\ calls[i].messages[1] = [role |-> "user", content |-> query]
          /\ i < Len(calls) => IsPrefix(calls[i].messages, calls[i + 1].messages)
    /\ calls # <<>> => IsPrefix(calls[Len(calls)].messages, messages)

C28_Witness ==
    /\ Len(calls) = 3
    /\ Len(calls[2].messages) = 3
    /\ Len(calls[3].messages) = 5

\* C29: the assistant message appended in a tool round holds the whole
\* content of the response: every block, text blocks included, in order.
C29_AssistantMessageIsFullContent ==
    /\ \A i \in 2..Len(calls) :
          calls[i].messages[Len(calls[i - 1].messages) + 1] =
              [role |-> "assistant", content |-> calls[i - 1].response.content]
    /\ pc = "tool_loop"
          => messages[Len(messages)] =
                [role |-> "assistant", content |-> response.content]

C29_Witness ==
    /\ Len(calls) = 2
    /\ Len(calls[1].response.content) = 2
    /\ calls[1].response.content[1].type = "text"
    /\ calls[1].response.content[2].type = "tool_use"

\* C30: given tool schemas and a tool manager, a model call that follows
\* fewer than max_rounds tool rounds carries the tool schemas of the first
\* call: the whole tools argument.
C30_ToolsKeptWhileRoundsRemain ==
    GivenToolsAndManager
    => \A i \in 1..Len(calls) :
          calls[i].round < max_rounds
          => /\ calls[i].tools
             /\ calls[i].tool_schemas = tools
             /\ calls[i].tool_schemas = calls[1].tool_schemas

C30_Witness ==
    /\ GivenToolsAndManager
    /\ max_rounds = 2
    /\ Len(calls) = 2
    /\ calls[2].tools

NewMessages(i) ==
    SubSeq(calls[i].messages, Len(calls[i - 1].messages) + 1,
           Len(calls[i].messages))

\* C31: the content of every ToolResult block is the text the tool manager
\* returned for that tool call, the not-found text of an unknown tool too,
\* with nothing added or removed.
C31_ToolResultIsToolText ==
    \A i \in 2..Len(calls) :
        LET ex == ExecutionsAfter(i - 1)
            new == NewMessages(i)
        IN ex # <<>>
           => /\ Len(new) = 2
              /\ new[2].role = "user"
              /\ Len(new[2].content) = Len(ex)
              /\ \A k \in 1..Len(ex) :
                    /\ new[2].content[k].type = "tool_result"
                    /\ ex[k].outcome.kind = "return"
                    /\ new[2].content[k].content = ex[k].outcome.value

C31_Witness ==
    /\ Len(calls) = 2
    /\ Len(executions) = 2
    /\ executions[1].outcome.value = "search result"
    /\ executions[2].outcome.value = "Tool 'get_course_outline' not found"
    /\ calls[2].messages[3].content[2].content =
          "Tool 'get_course_outline' not found"

\* the ToolUse block an execution was made for
BlockOf(e) ==
    LET c == calls[e.call].response.content
    IN c[CHOOSE j \in 1..Len(c) : c[j].type = "tool_use" /\ c[j].id = e.id]

\* C32: every tool execution is requested with the name of its ToolUse
\* block and that block's input, whole.
C32_ExecutionUsesBlockNameAndInput ==
    \A k \in 1..Len(executions) :
        LET e == executions[k]
            c == calls[e.call].response.content
        IN /\ \E j \in 1..Len(c) : c[j].type = "tool_use" /\ c[j].id = e.id
           /\ e.name = BlockOf(e).name
           /\ e.input = BlockOf(e).input

C32_Witness ==
    /\ Len(executions) = 2
    /\ executions[1].name = "get_course_outline"
    /\ executions[1].input = "in2"
    /\ executions[2].name = "search_course_content"
    /\ executions[2].input = "in1"

\* C36: ToolUse blocks are executed only when they come in a response with
\* stop reason tool_use; in any other response they are neither executed
\* nor answered with a ToolResult.
C36_OnlyToolUseResponsesExecute ==
    /\ \A k \in 1..Len(executions) :
          calls[executions[k].call].response.stop_reason = "tool_use"
    /\ \A i \in 1..Len(calls) :
          (calls[i].outcome = "ok" /\ calls[i].response.stop_reason # "tool_use")
          => /\ ExecutionsAfter(i) = <<>>
             /\ i = Len(calls)
             /\ messages = calls[i].messages

C36_Witness ==
    /\ Len(calls) = 2
    /\ calls[2].response.stop_reason = "end_turn"
    /\ ToolUses(calls[2].response.content) # <<>>
    /\ pc \in {"returned", "raised"}

\* C37: without a tool manager, or without tools (none or an empty list),
\* the invocation makes exactly one model call and executes no tool, also
\* when the response has stop reason tool_use.
C37_NoToolsNoManagerSingleCall ==
    (pc # "start" /\ ~GivenToolsAndManager)
    => /\ Len(calls) = 1
       /\ executions = <<>>
       /\ tool_rounds = 0
       /\ pc \in {"create_first", "returned", "raised"}

C37_Witness ==
    /\ tools = "schemas"
    /\ tool_manager = "None"
    /\ calls[1].outcome = "ok"
    /\ calls[1].response.stop_reason = "tool_use"
    /\ ToolUses(calls[1].response.content) # <<>>
    /\ pc \in {"returned", "raised"}

\* C38: a tool round appends a user tool-result message if and only if its
\* response holds a ToolUse block; no user message with an empty result list
\* is ever in the conversation; the next model call is made either way.
C38_UserMessageIffToolUse ==
    /\ \A i \in 2..Len(calls) :
          LET new == NewMessages(i)
              tu == ToolUses(calls[i - 1].response.content)
          IN /\ new[1].role = "assistant"
             /\ Len(new) = IF tu # <<>> THEN 2 ELSE 1
             /\ tu # <<>> => new[2].role = "user" /\ Len(new[2].content) = Len(tu)
    /\ \A j \in 2..Len(messages) :
          messages[j].role = "user" => messages[j].content # <<>>
    /\ (pc \notin {"start", "tool_loop"} /\ result.origin # "tool")
          => Len(calls) = tool_rounds + 1

C38_Witness ==
    /\ Len(calls) = 2
    /\ calls[1].response.stop_reason = "tool_use"
    /\ ToolUses(calls[1].response.content) = <<>>
    /\ Len(calls[2].messages) = 2
    /\ calls[2].outcome = "ok"

\* the frames of _process_tool_chain on the stack: every frame entered is
\* still open while the invocation runs, as each is called from the last
RecursionDepth == tool_rounds

\* C35: with every model call and tool execution coming back, the
\* invocation ends, with an answer or an error, and the recursion depth of
\* _process_tool_chain never exceeds max(1, max_rounds).
C35_TerminatesWithinDepth ==
    /\ [](RecursionDepth <= IF max_rounds > 1 THEN max_rounds ELSE 1)
    /\ <>(pc \in {"returned", "raised"})

C35_Witness ==
    /\ pc = "returned"
    /\ max_rounds = 2
    /\ RecursionDepth = 2
    /\ Len(calls) = 3

\* the message lists invocation i refers to: api_params["messages"] and the
\* messages of its _process_tool_chain frames
ListsOf(i) ==
    (IF inv[i].api_params # 0
     THEN {dicts[inv[i].api_params].messages} ELSE {})
    \cup (IF inv[i].messages # 0 THEN {inv[i].messages} ELSE {})

\* C34: two invocations on one AIGenerator, one after the other or
\* interleaved, never refer to the same message list; the lists of an
\* invocation are made and appended to by that invocation only; and the
\* generator's base_params and the caller's tools list stay as they were.
C34_ConversationIsPrivate ==
    /\ \A i, j \in Invs : i # j => ListsOf(i) \cap ListsOf(j) = {}
    /\ \A i \in Invs : \A id \in ListsOf(i) : writers[id] = {i}
    /\ \A i \in Invs :
          inv[i].next_params # 0
          => dicts[inv[i].next_params].messages = inv[i].messages
    /\ writers[ToolsListId] = {"caller"}
    /\ lists[ToolsListId] = ToolSchemas
    /\ dicts[BaseParamsId] = BaseParams

C34_Witness ==
    /\ inv["i1"].pc = "create_next"
    /\ inv["i2"].pc = "create_next"
    /\ dicts[inv["i1"].api_params].messages = 2
    /\ dicts[inv["i2"].api_params].messages = 3
    /\ inv["i2"].messages = 4
    /\ inv["i1"].messages = 5
    /\ Len(lists[4]) = 3
    /\ Len(lists[5]) = 3
    /\ dicts[inv["i1"].next_params].tools = ToolsListId

====
